---------------------------- MODULE Spec2Model ----------------------------
(***************************************************************************)
(* Model of collect_information_from_elasticsearch.py: the DMARC report    *)
(* pipeline  input -> collect_records -> get_total_message_count ->        *)
(* generate_pdf (with generate_world_map and                               *)
(* convert_country_codes_to_names).                                        *)
(*                                                                         *)
(* Python values are modelled as follows.                                  *)
(*   - a record (the "_source" dict of a hit) is a function from field     *)
(*     names to values; a missing field is a name outside its DOMAIN;      *)
(*   - an insertion-ordered dict (country_counts, org_data) is a sequence  *)
(*     of <<key, value>> pairs with distinct keys, in insertion order;     *)
(*   - a str that is edited character by character (the domain) is a       *)
(*     sequence of one-character strings; other strs are TLA+ strings.     *)
(***************************************************************************)
EXTENDS Integers, Sequences, FiniteSets, TLC

(***************************************************************************)
(* Bounds of the model.                                                    *)
(***************************************************************************)
MaxRecords == 3      \* hits returned by the record query
MaxBuckets == 2      \* buckets returned by the date_histogram aggregation
MaxDomainLen == 2    \* characters of a typed domain (path specification)

(***************************************************************************)
(* Python dict / list helpers.                                             *)
(***************************************************************************)
EmptyDict == <<>>

\* record.get(key, default)
Get(record, key, default) ==
    IF key \in DOMAIN record THEN record[key] ELSE default

\* keys of an insertion-ordered dict, in order
Keys(d) == [i \in 1..Len(d) |-> d[i][1]]

KeySet(d) == {d[i][1] : i \in 1..Len(d)}

\* d.get(k, default) on an insertion-ordered dict
DictGet(d, k, default) ==
    IF k \in KeySet(d)
    THEN LET i == CHOOSE j \in 1..Len(d) : d[j][1] = k IN d[i][2]
    ELSE default

\* d[k] = v : an existing key keeps its position, a new key is appended
DictPut(d, k, v) ==
    IF k \in KeySet(d)
    THEN [i \in 1..Len(d) |-> IF d[i][1] = k THEN <<k, v>> ELSE d[i]]
    ELSE Append(d, <<k, v>>)

\* all sequences over S of length lo..hi
SeqsFromTo(S, lo, hi) == UNION {[1..n -> S] : n \in lo..hi}

(***************************************************************************)
(* sorted(items, key=..., reverse=True): Python's sort is stable, and      *)
(* reverse=True keeps the original order of items with equal keys.  Items  *)
(* are <<name, value, key>> triples (decorated by the caller).             *)
(***************************************************************************)
InsertStableAfterEqual(acc, x) ==
    LET smaller == {i \in 1..Len(acc) : acc[i][3] < x[3]}
        pos == IF smaller = {} THEN Len(acc) + 1
               ELSE CHOOSE i \in smaller : \A j \in smaller : i <= j
    IN SubSeq(acc, 1, pos - 1) \o <<x>> \o SubSeq(acc, pos, Len(acc))

\* an unstable variant: x goes before the items with an equal key
InsertBeforeEqual(acc, x) ==
    LET notLarger == {i \in 1..Len(acc) : acc[i][3] <= x[3]}
        pos == IF notLarger = {} THEN Len(acc) + 1
               ELSE CHOOSE i \in notLarger : \A j \in notLarger : i <= j
    IN SubSeq(acc, 1, pos - 1) \o <<x>> \o SubSeq(acc, pos, Len(acc))

InsertDesc(acc, x) == InsertStableAfterEqual(acc, x)

RECURSIVE SortedReverse(_)
SortedReverse(items) ==
    IF items = <<>> THEN <<>>
    ELSE InsertDesc(SortedReverse(SubSeq(items, 1, Len(items) - 1)),
                    items[Len(items)])


(***************************************************************************)
(* External data the code reads.                                           *)
(***************************************************************************)
\* pycountry.countries, by alpha_2: a sample of ISO 3166 (code -> name)
pycountry_countries ==
    ("US" :> "United States") @@ ("DE" :> "Germany") @@
    ("RU" :> "Russian Federation") @@ ("VN" :> "Viet Nam")

\* world["ADMIN"]: a sample of the names of data/ne_110m_admin_0_countries.shp
world_ADMIN ==
    {"United States of America", "Germany", "Russia", "Vietnam"}

(***************************************************************************)
(* convert_country_codes_to_names                                          *)
(***************************************************************************)
\* pycountry.countries.get(alpha_2=country_code): the name, or the key itself
\* when the lookup returns None (country_name_mapping.get(k, k))
CountryName(country_code) ==
    IF country_code \in DOMAIN pycountry_countries
    THEN pycountry_countries[country_code]
    ELSE country_code

\* {country_name_mapping.get(k, k): v for k, v in country_counts.items()}
RECURSIVE convert_country_codes_to_names(_)
convert_country_codes_to_names(country_counts) ==
    IF country_counts = <<>> THEN <<>>
    ELSE LET n == Len(country_counts)
             k == country_counts[n][1]
             v == country_counts[n][2]
         IN DictPut(convert_country_codes_to_names(SubSeq(country_counts, 1, n - 1)),
                    CountryName(k), v)

(***************************************************************************)
(* generate_world_map                                                      *)
(***************************************************************************)
\* the override table of generate_world_map, verbatim (the o-circumflex of
\* the Ivory Coast entry is written as a plain o)
OverrideTable ==
    ("United States" :> "United States of America") @@
    ("Russia" :> "Russian Federation") @@
    ("South Korea" :> "Korea, Republic of") @@
    ("North Korea" :> "Korea, Democratic People's Republic of") @@
    ("Iran" :> "Iran, Islamic Republic of") @@
    ("Syria" :> "Syrian Arab Republic") @@
    ("Venezuela" :> "Venezuela, Bolivarian Republic of") @@
    ("Bolivia" :> "Bolivia, Plurinational State of") @@
    ("Moldova" :> "Moldova, Republic of") @@
    ("Macedonia" :> "North Macedonia") @@
    ("Vietnam" :> "Viet Nam") @@
    ("Laos" :> "Lao People's Democratic Republic") @@
    ("Brunei" :> "Brunei Darussalam") @@
    ("Tanzania" :> "Tanzania, United Republic of") @@
    ("Congo" :> "Congo, Republic of the") @@
    ("Ivory Coast" :> "Cote d'Ivoire") @@
    ("Cape Verde" :> "Cabo Verde") @@
    ("East Timor" :> "Timor-Leste")

\* a variant with one more entry, mapping a shapefile name back
OverrideTableWithReverseEntry ==
    OverrideTable @@ ("United States of America" :> "United States")

country_name_mapping == OverrideTable

\* shapefile_country = country_name_mapping.get(country, country)
ShapefileCountry(country) ==
    IF country \in DOMAIN country_name_mapping
    THEN country_name_mapping[country]
    ELSE country

max_size == 5000
min_size == 50
scale_factor == 5

Max(a, b) == IF a >= b THEN a ELSE b
Min(a, b) == IF a <= b THEN a ELSE b

\* a variant that forgets the lower clamp
ScaledSizeNoMin(size) == Min(max_size, size * scale_factor)

\* max(min_size, min(max_size, size * scale_factor))
ScaledSize(size) == Max(min_size, Min(max_size, size * scale_factor))

\* the loop over normalized_country_counts.items(): the countries found in
\* the shapefile, each with the count appended to sizes
MatchedCountries(normalized_country_counts) ==
    SelectSeq(normalized_country_counts,
              LAMBDA item : ShapefileCountry(item[1]) \in world_ADMIN)

NoMap == [image |-> FALSE, markers |-> <<>>]

\* None (NoMap) when no country matches; else the image, whose markers are
\* <<shapefile_country, size, scaled_size>>
generate_world_map(country_counts) ==
    LET normalized_country_counts == convert_country_codes_to_names(country_counts)
        matched == MatchedCountries(normalized_country_counts)
    IN IF matched = <<>> THEN NoMap
       ELSE [image |-> TRUE,
             markers |-> [i \in 1..Len(matched) |->
                            <<ShapefileCountry(matched[i][1]), matched[i][2],
                              ScaledSize(matched[i][2])>>]]

(***************************************************************************)
(* generate_pdf: the aggregations                                          *)
(***************************************************************************)
MessageCount(record) == Get(record, "message_count", 0)

\* sum(record.get("message_count", 0) for record in records)
RECURSIVE TotalMessages(_)
TotalMessages(records) ==
    IF records = <<>> THEN 0
    ELSE MessageCount(Head(records)) + TotalMessages(Tail(records))

\* the filter  if record.get(flag, False)
IsAligned(record, flag) == Get(record, flag, FALSE)

\* a variant that counts only an explicit False:  if record.get(flag) is False
IsExplicitlyFalse(record, flag) == flag \in DOMAIN record /\ record[flag] = FALSE

\* the filter  if not record.get(flag, False)
IsUnaligned(record, flag) == ~Get(record, flag, FALSE)

\* sum(... for record in records if record.get(flag, False))
TotalAligned(records, flag) ==
    TotalMessages(SelectSeq(records, LAMBDA r : IsAligned(r, flag)))

\* sum(... for record in records if not record.get(flag, False))
TotalUnaligned(records, flag) ==
    TotalMessages(SelectSeq(records, LAMBDA r : IsUnaligned(r, flag)))

\* country_counts[country] = country_counts.get(country, 0) + message_count
RECURSIVE CountryCounts(_)
CountryCounts(records) ==
    IF records = <<>> THEN EmptyDict
    ELSE LET n == Len(records)
             before == CountryCounts(SubSeq(records, 1, n - 1))
             country == Get(records[n], "source_country", "Unknown")
         IN DictPut(before, country,
                    DictGet(before, country, 0) + MessageCount(records[n]))

\* sorted(country_counts.items(), key=lambda item: item[1], reverse=True)
SortedCountryCounts(country_counts) ==
    LET decorated == [i \in 1..Len(country_counts) |->
                        <<country_counts[i][1], country_counts[i][2],
                          country_counts[i][2]>>]
        sorted == SortedReverse(decorated)
    IN [i \in 1..Len(sorted) |-> <<sorted[i][1], sorted[i][2]>>]

\* a variant that overwrites the email on every record (last write wins)
OrgDataStepOverwrite(org_data, record) ==
    LET org_name == Get(record, "org_name", "Unknown")
        org_email == Get(record, "org_email", "Unknown")
        message_count == Get(record, "message_count", 0)
        entry == DictGet(org_data, org_name, [email |-> org_email, messages |-> 0])
    IN DictPut(org_data, org_name,
               [email |-> org_email, messages |-> entry.messages + message_count])

\* the body of the loop over records that fills org_data
OrgDataStep(org_data, record) ==
    LET org_name == Get(record, "org_name", "Unknown")
        org_email == Get(record, "org_email", "Unknown")
        message_count == MessageCount(record)
        entry == DictGet(org_data, org_name, [email |-> org_email, messages |-> 0])
    IN DictPut(org_data, org_name,
               [email |-> entry.email, messages |-> entry.messages + message_count])

RECURSIVE OrgData(_)
OrgData(records) ==
    IF records = <<>> THEN EmptyDict
    ELSE OrgDataStep(OrgData(SubSeq(records, 1, Len(records) - 1)),
                     records[Len(records)])

\* sorted(org_data.items(), key=lambda item: item[1]["messages"], reverse=True)
SortedOrgData(org_data) ==
    LET decorated == [i \in 1..Len(org_data) |->
                        <<org_data[i][1], org_data[i][2], org_data[i][2].messages>>]
        sorted == SortedReverse(decorated)
    IN [i \in 1..Len(sorted) |-> <<sorted[i][1], sorted[i][2]>>]

(***************************************************************************)
(* generate_pdf: the output path                                           *)
(***************************************************************************)
\* a variant that replaces the first '.' only:  domain.replace('.', '_', 1)
SanitizedFirstDot(domain) ==
    [i \in 1..Len(domain) |->
        IF domain[i] = "." /\ \A j \in 1..(i - 1) : domain[j] # "."
        THEN "_" ELSE domain[i]]

\* domain.replace('.', '_')
SanitizedDomain(domain) ==
    [i \in 1..Len(domain) |-> IF domain[i] = "." THEN "_" ELSE domain[i]]

\* os.path.join(output_folder, f"dmarc_report_{sanitized_domain}.pdf")
FullPath(domain) ==
    <<"results", "/", "dmarc_report_">> \o SanitizedDomain(domain) \o <<".pdf">>

(***************************************************************************)
(* generate_pdf: the document.  The Reporting Organizations page is built  *)
(* inside  if map_buffer:  and is absent when generate_world_map returns   *)
(* None.                                                                   *)
(***************************************************************************)
OrgSection(map_buffer, records) ==
    IF map_buffer.image
    THEN [page |-> TRUE, entries |-> SortedOrgData(OrgData(records))]
    ELSE [page |-> FALSE, entries |-> <<>>]

NoDoc ==
    [domain |-> <<>>, total_message_count |-> 0, total_messages |-> 0,
     aligned |-> <<0, 0, 0>>, unaligned |-> <<0, 0, 0>>,
     countries |-> <<>>, map |-> NoMap,
     orgs |-> [page |-> FALSE, entries |-> <<>>]]

Flags == <<"dkim_aligned", "spf_aligned", "passed_dmarc">>

GeneratePdfDoc(recs, dom, total) ==
    LET country_counts == CountryCounts(recs)
        map_buffer == generate_world_map(country_counts)
    IN [domain |-> dom,
        total_message_count |-> total,
        total_messages |-> TotalMessages(recs),
        aligned |-> [i \in 1..3 |-> TotalAligned(recs, Flags[i])],
        unaligned |-> [i \in 1..3 |-> TotalUnaligned(recs, Flags[i])],
        countries |-> SortedCountryCounts(country_counts),
        map |-> map_buffer,
        orgs |-> OrgSection(map_buffer, recs)]

(***************************************************************************)
(* The two store queries.  A call returns [raised, value]: raised is TRUE  *)
(* when an exception leaves the function.  fault is what es.search or the  *)
(* reading of its response does: "none", "ConnectionError" (the store is   *)
(* unreachable) or "KeyError" (the response lacks the expected keys).      *)
(***************************************************************************)
Faults == {"none", "ConnectionError", "KeyError"}

Return(v) == [raised |-> FALSE, value |-> v]
Raise(v) == [raised |-> TRUE, value |-> v]

\* try: ... return records / except Exception: return []
collect_records(fault, hits) ==
    IF fault = "none" THEN Return(hits) ELSE Return(<<>>)

\* a bucket is the dict bucket["4"]; one without "value" makes the loop raise
RECURSIVE SumBuckets(_)
SumBuckets(buckets) ==
    IF buckets = <<>> THEN 0
    ELSE buckets[1]["value"] + SumBuckets(Tail(buckets))

\* a variant whose handler catches the connection error only
get_total_message_count_narrow(fault, buckets) ==
    IF fault = "ConnectionError" THEN Return(0)
    ELSE IF fault = "KeyError" \/
            \E i \in 1..Len(buckets) : "value" \notin DOMAIN buckets[i]
         THEN Raise(0)
         ELSE Return(SumBuckets(buckets))

\* try: ... for bucket in buckets: total_count += ... / except Exception: return 0
get_total_message_count(fault, buckets) ==
    IF fault # "none" THEN Return(0)
    ELSE IF \E i \in 1..Len(buckets) : "value" \notin DOMAIN buckets[i]
         THEN Return(0)
         ELSE Return(SumBuckets(buckets))

\* the buckets the aggregation can return
BucketPool == {("value" :> 4), EmptyDict}

\* a variant of the test that lets every run through
AlwaysTrue(recs) == TRUE

\* if records:
HasRecords(recs) == recs # <<>>

(***************************************************************************)
(* State.                                                                  *)
(***************************************************************************)
VARIABLES
    stdin,                \* the domains still to be typed, one per invocation
    index,                \* the hits the store holds for the record query
    pc,                   \* position in __main__
    domain,               \* input(...)
    records,              \* result of collect_records
    total_message_count,  \* result of get_total_message_count
    fetch_failed,         \* the record query failed (caught or not)
    count_failed,         \* the total-count query failed (caught or not)
    pdf,                  \* the document built by generate_pdf in this run
    fs,                   \* the filesystem: folders and files written
    written               \* the pdf.output(full_path) calls made so far

vars == <<stdin, index, pc, domain, records, total_message_count,
          fetch_failed, count_failed, pdf, fs, written>>

(***************************************************************************)
(* Inputs.                                                                 *)
(***************************************************************************)
ExampleDomain == <<"a", ".", "b">>

DomainChars == {"a", ".", "_"}

Domains == SeqsFromTo(DomainChars, 1, MaxDomainLen)

\* one optional field: absent, or present with one of the values
Opt(field, values) == {EmptyDict} \cup {(field :> v) : v \in values}

\* records that differ in country, organization and contact
RankPool ==
    {EmptyDict} \cup
    {("source_country" :> c) @@ ("org_name" :> o) @@ ("org_email" :> e) @@
     ("message_count" :> 3) :
        c \in {"US", "ZZ"}, o \in {"A", "B"}, e \in {"x@a", "y@a"}}

\* records that differ in message_count and in the three flags; the three
\* flag profiles put every flag once in each of absent / True / False
FlagProfiles ==
    {("dkim_aligned" :> TRUE) @@ ("spf_aligned" :> FALSE),
     ("dkim_aligned" :> FALSE) @@ ("passed_dmarc" :> TRUE),
     ("spf_aligned" :> TRUE) @@ ("passed_dmarc" :> FALSE)}

FlagPool ==
    {m @@ f : m \in Opt("message_count", {-2, 3}), f \in FlagProfiles}

\* records that differ in the country key and in the size of the count
MapPool ==
    {("source_country" :> c) @@ ("message_count" :> n) :
        c \in {"US", "United States", "DE", "ZZ"}, n \in {-2, 20, 1001}}

NoFs == [folders |-> {}, files |-> {}]

InitWith(inputs, pool) ==
    /\ stdin \in inputs
    /\ index \in SeqsFromTo(pool, 0, MaxRecords)
    /\ pc = "input"
    /\ domain = <<>>
    /\ records = <<>>
    /\ total_message_count = 0
    /\ fetch_failed = FALSE
    /\ count_failed = FALSE
    /\ pdf = NoDoc
    /\ fs = NoFs
    /\ written = <<>>

Init == InitWith({<<ExampleDomain>>}, RankPool)

InitTotals == InitWith({<<ExampleDomain>>}, FlagPool)

InitMap == InitWith({<<ExampleDomain>>}, MapPool)

InitPath == InitWith(Domains \X Domains, {EmptyDict})

(***************************************************************************)
(* __main__                                                                *)
(***************************************************************************)
\* domain = input("Please enter the domain you wish to summarize: ")
ReadDomain ==
    /\ pc = "input"
    /\ stdin # <<>>
    /\ domain' = Head(stdin)
    /\ stdin' = Tail(stdin)
    /\ pc' = "collect"
    /\ UNCHANGED <<index, records, total_message_count, fetch_failed,
                   count_failed, pdf, fs, written>>

\* records = collect_records(index_pattern, records_days, domain)
CollectRecords ==
    /\ pc = "collect"
    /\ \E fault \in Faults :
          LET r == collect_records(fault, index)
          IN /\ records' = r.value
             /\ fetch_failed' = (fault # "none")
             /\ pc' = IF r.raised THEN "traceback" ELSE "count"
    /\ UNCHANGED <<stdin, index, domain, total_message_count, count_failed,
                   pdf, fs, written>>

\* total_message_count = get_total_message_count(index_pattern, domain, ...)
GetTotalMessageCount ==
    /\ pc = "count"
    /\ \E fault \in Faults, buckets \in SeqsFromTo(BucketPool, 0, MaxBuckets) :
          LET r == get_total_message_count(fault, buckets)
          IN /\ total_message_count' = r.value
             /\ count_failed' =
                   (fault # "none" \/
                    \E i \in 1..Len(buckets) : "value" \notin DOMAIN buckets[i])
             /\ pc' = IF r.raised THEN "traceback" ELSE "report"
    /\ UNCHANGED <<stdin, index, domain, records, fetch_failed, pdf, fs,
                   written>>

\* if records: ... generate_pdf(records, domain, total_message_count)
GeneratePdf ==
    /\ pc = "report"
    /\ HasRecords(records)
    /\ pdf' = GeneratePdfDoc(records, domain, total_message_count)
    /\ fs' = [folders |-> fs.folders \cup {"results"},
              files |-> {f \in fs.files : f.path # FullPath(domain)} \cup
                        {[path |-> FullPath(domain), domain |-> domain]}]
    /\ written' = Append(written, [path |-> FullPath(domain), domain |-> domain])
    /\ pc' = "done"
    /\ UNCHANGED <<stdin, index, domain, records, total_message_count,
                   fetch_failed, count_failed>>

\* else: print("No records found.")
NoRecords ==
    /\ pc = "report"
    /\ ~HasRecords(records)
    /\ pc' = "done"
    /\ UNCHANGED <<stdin, index, domain, records, total_message_count,
                   fetch_failed, count_failed, pdf, fs, written>>

\* the script is started again, for the next domain; the filesystem stays
Invoke ==
    /\ pc = "done"
    /\ stdin # <<>>
    /\ pc' = "input"
    /\ domain' = <<>>
    /\ records' = <<>>
    /\ total_message_count' = 0
    /\ fetch_failed' = FALSE
    /\ count_failed' = FALSE
    /\ pdf' = NoDoc
    /\ UNCHANGED <<stdin, index, fs, written>>

Next ==
    \/ ReadDomain
    \/ CollectRecords
    \/ GetTotalMessageCount
    \/ GeneratePdf
    \/ NoRecords

NextRuns == Next \/ Invoke

Spec == Init /\ [][Next]_vars

SpecTotals == InitTotals /\ [][Next]_vars

SpecMap == InitMap /\ [][Next]_vars

SpecPath == InitPath /\ [][NextRuns]_vars

(***************************************************************************)
(* Auxiliary definitions for the properties.                               *)
(***************************************************************************)
\* generate_pdf has run in this invocation
Generated == pc = "done" /\ pdf # NoDoc

\* the sum of the message_count fields that are present
RECURSIVE CountSum(_)
CountSum(recs) ==
    IF recs = <<>> THEN 0
    ELSE (IF "message_count" \in DOMAIN Head(recs)
          THEN Head(recs)["message_count"] ELSE 0) + CountSum(Tail(recs))

\* the key of a record for a grouping field
KeyOf(record, field) ==
    IF field \in DOMAIN record THEN record[field] ELSE "Unknown"

RecordsOf(recs, field, key) ==
    SelectSeq(recs, LAMBDA r : KeyOf(r, field) = key)

KeysOf(recs, field) == {KeyOf(recs[i], field) : i \in 1..Len(recs)}

\* position of the first record with this key
FirstSeen(recs, field, key) ==
    CHOOSE i \in 1..Len(recs) :
        /\ KeyOf(recs[i], field) = key
        /\ \A j \in 1..(i - 1) : KeyOf(recs[j], field) # key

\* entries <<name, count>>: non-increasing, ties in first-seen order
RankedStable(entries, recs, field) ==
    \A i, j \in 1..Len(entries) :
        i < j =>
            \/ entries[i][2] > entries[j][2]
            \/ /\ entries[i][2] = entries[j][2]
               /\ FirstSeen(recs, field, entries[i][1]) <
                  FirstSeen(recs, field, entries[j][1])

OrgCounts(entries) ==
    [i \in 1..Len(entries) |-> <<entries[i][1], entries[i][2].messages>>]

HasTie(entries) ==
    \E i, j \in 1..Len(entries) : i < j /\ entries[i][2] = entries[j][2]

Reordered(entries, recs, field) ==
    \E i, j \in 1..Len(entries) :
        /\ i < j
        /\ FirstSeen(recs, field, entries[i][1]) >
           FirstSeen(recs, field, entries[j][1])

(***************************************************************************)
(* C1: in every generated report, for each of DKIM, SPF and DMARC, the     *)
(* aligned/passed total plus the unaligned/failed total equals the total   *)
(* of messages; a missing message_count counts as 0 and a missing flag     *)
(* counts as unaligned/failed.                                             *)
(***************************************************************************)
C1_TotalsPartition ==
    Generated =>
        /\ pdf.total_messages = CountSum(records)
        /\ \A i \in 1..3 :
              /\ pdf.aligned[i] + pdf.unaligned[i] = pdf.total_messages
              /\ pdf.unaligned[i] =
                    CountSum(SelectSeq(records,
                        LAMBDA r : Flags[i] \notin DOMAIN r \/ r[Flags[i]] = FALSE))

C1_Witness ==
    /\ Generated
    /\ \E i \in 1..Len(records) : "message_count" \notin DOMAIN records[i]
    /\ \E i \in 1..Len(records) :
          /\ "dkim_aligned" \notin DOMAIN records[i]
          /\ "message_count" \in DOMAIN records[i]
    /\ pdf.aligned[1] # 0
    /\ pdf.unaligned[1] # 0
    /\ pdf.total_messages # 0

(***************************************************************************)
(* C2: the country ranking and the organization ranking of a generated     *)
(* report are ordered non-increasing by summed message count, and entries  *)
(* with equal counts are in the order in which their key was first seen.   *)
(***************************************************************************)
C2_RankingsOrdered ==
    Generated =>
        /\ RankedStable(pdf.countries, records, "source_country")
        /\ RankedStable(OrgCounts(pdf.orgs.entries), records, "org_name")

C2_Witness ==
    /\ Generated
    /\ pdf.orgs.page
    /\ HasTie(pdf.countries)
    /\ Reordered(pdf.countries, records, "source_country")
    /\ Reordered(OrgCounts(pdf.orgs.entries), records, "org_name")

(***************************************************************************)
(* C3: the organization ranking has exactly one entry per distinct         *)
(* org_name (default "Unknown"), whose total is the sum of message_count   *)
(* over the records of that org_name.  The contact email of the entry:     *)
(*   as claimed  - the org_email of the LAST record of that org_name;      *)
(*   as amended  - the org_email of the FIRST record of that org_name.     *)
(***************************************************************************)
OrgEntriesAre(EmailOf(_)) ==
    LET e == pdf.orgs.entries
        names == KeysOf(records, "org_name")
    IN /\ {e[i][1] : i \in 1..Len(e)} = names
       /\ Len(e) = Cardinality(names)
       /\ \A i \in 1..Len(e) :
             LET mine == RecordsOf(records, "org_name", e[i][1])
             IN /\ e[i][2].messages = CountSum(mine)
                /\ e[i][2].email = KeyOf(EmailOf(mine), "org_email")

FirstOf(seq) == seq[1]
LastOf(seq) == seq[Len(seq)]

C4_OrgSectionAlways ==
    (pc = "done" /\ records # <<>>) =>
        /\ pdf # NoDoc
        /\ {pdf.countries[i][1] : i \in 1..Len(pdf.countries)} =
              KeysOf(records, "source_country")
        /\ pdf.orgs.page
        /\ {pdf.orgs.entries[i][1] : i \in 1..Len(pdf.orgs.entries)} =
              KeysOf(records, "org_name")

(***************************************************************************)
(* C5: the output path is results/dmarc_report_<domain with every '.'      *)
(* replaced by '_'>.pdf.                                                   *)
(*   as claimed - two runs for different domains always write different    *)
(*                paths, and no run overwrites another domain's report;    *)
(*   as amended - two runs write the same path exactly when their domains  *)
(*                have the same length and differ, if at all, only in '.'  *)
(*                against '_' (so never when neither has a '_'); only      *)
(*                then does the later run overwrite the earlier report.    *)
(***************************************************************************)
PathFormat(w) ==
    /\ Len(w.path) = Len(w.domain) + 4
    /\ SubSeq(w.path, 1, 3) = <<"results", "/", "dmarc_report_">>
    /\ w.path[Len(w.path)] = ".pdf"
    /\ \A i \in 1..Len(w.domain) :
          w.path[i + 3] = IF w.domain[i] = "." THEN "_" ELSE w.domain[i]

OnDisk(w) == \E f \in fs.files : f.path = w.path /\ f.domain = w.domain

SameUpToDots(d1, d2) ==
    /\ Len(d1) = Len(d2)
    /\ \A i \in 1..Len(d1) : d1[i] = d2[i] \/ {d1[i], d2[i]} = {".", "_"}

\* C5 as claimed: the path has the stated format, different domains get
\* different paths and every domain's report stays on disk
C5_DifferentDomainsDisjoint ==
    /\ \A i \in 1..Len(written) : PathFormat(written[i])
    /\ \A i, j \in 1..Len(written) :
          written[i].domain # written[j].domain =>
              /\ written[i].path # written[j].path
              /\ OnDisk(written[i])
              /\ OnDisk(written[j])

\* C5 as amended: the path has the stated format, and two runs share a path
\* exactly when their domains are equal up to '.' against '_'
C5_DisjointUnlessSameUpToDots ==
    /\ \A i \in 1..Len(written) : PathFormat(written[i])
    /\ \A i, j \in 1..Len(written) :
          /\ (written[i].path = written[j].path) <=>
                SameUpToDots(written[i].domain, written[j].domain)
          /\ ~SameUpToDots(written[i].domain, written[j].domain) =>
                OnDisk(written[i]) /\ OnDisk(written[j])
    /\ \A i \in 1..Len(written) : i = Len(written) => OnDisk(written[i])

C5_Witness ==
    /\ Len(written) = 2
    /\ written[1].domain # written[2].domain
    /\ \E i \in 1..Len(written[1].domain) : written[1].domain[i] = "."
    /\ \E i \in 1..Len(written[2].domain) : written[2].domain[i] = "."
    /\ written[1].path # written[2].path
    /\ Cardinality(fs.files) = 2

(***************************************************************************)
(* C6: a failing record query yields an empty record list, a failing       *)
(* total-count query yields 0, no exception leaves either call, and a      *)
(* failure of the total-count query alone does not stop the report when    *)
(* records were fetched.                                                   *)
(***************************************************************************)
C6_QueryFailuresContained ==
    /\ pc # "traceback"
    /\ fetch_failed => records = <<>>
    /\ count_failed => total_message_count = 0
    /\ (pc = "done" /\ count_failed /\ records # <<>>) =>
          /\ pdf # NoDoc
          /\ pdf.total_message_count = 0
          /\ \E f \in fs.files : f.domain = domain

C6_Witness ==
    /\ pc = "done"
    /\ count_failed
    /\ ~fetch_failed
    /\ records # <<>>
    /\ pdf # NoDoc
    /\ fs.files # {}

(***************************************************************************)
(* C7: generate_pdf (and with it the creation of the output folder and     *)
(* file) is entered only if the record fetch returned at least one record; *)
(* otherwise the run ends after the two queries without report generation. *)
(***************************************************************************)
C7_ReportOnlyWithRecords ==
    /\ (pdf # NoDoc \/ fs # NoFs \/ written # <<>>) => records # <<>>
    /\ (pc = "done" /\ records = <<>>) =>
          pdf = NoDoc /\ fs = NoFs /\ written = <<>>

C7_Witness ==
    /\ pc = "done"
    /\ fetch_failed
    /\ index # <<>>
    /\ records = <<>>
    /\ fs = NoFs

(***************************************************************************)
(* C8: every marker drawn on the map has size clamp(c * 5, 50, 5000) for   *)
(* the count c of its country: c*5 inside [50, 5000], 50 below, 5000       *)
(* above; c is the summed count of the country when one key of the         *)
(* ranking stands for it.                                                  *)
(***************************************************************************)
KeysDrawnAs(shapefile_country) ==
    {k \in KeysOf(records, "source_country") :
        ShapefileCountry(CountryName(k)) = shapefile_country}

\* C8: every marker's size is clamp(c * 5, 50, 5000)
C8_MarkerSizeClamped ==
    Generated =>
        \A i \in 1..Len(pdf.map.markers) :
            LET m == pdf.map.markers[i]
                c == m[2]
                size == m[3]
            IN /\ (50 <= c * 5 /\ c * 5 <= 5000) => size = c * 5
               /\ c * 5 < 50 => size = 50
               /\ c * 5 > 5000 => size = 5000
               /\ 50 <= size /\ size <= 5000
               /\ \A k \in KeysDrawnAs(m[1]) :
                     KeysDrawnAs(m[1]) = {k} =>
                        c = CountSum(RecordsOf(records, "source_country", k))

C8_Witness ==
    /\ Generated
    /\ pdf.map.image
    /\ \E i \in 1..Len(pdf.map.markers) :
          pdf.map.markers[i][2] * 5 < 50 /\ pdf.map.markers[i][3] = 50
    /\ \E i \in 1..Len(pdf.map.markers) :
          pdf.map.markers[i][2] * 5 > 5000 /\ pdf.map.markers[i][3] = 5000

(***************************************************************************)
(* C9: normalization maps each recognized country code to its canonical    *)
(* name and keeps every other key as it is; normalizing again (code        *)
(* lookup, then the override table) changes nothing.                       *)
(***************************************************************************)
Normalize(k) == ShapefileCountry(CountryName(k))

\* C9: codes become names, other keys stay, and normalizing twice equals once
C9_NormalizationIdempotent ==
    Generated =>
        LET country_counts == CountryCounts(records)
            normalized == convert_country_codes_to_names(country_counts)
        IN /\ \A k \in KeySet(country_counts) :
                 /\ k \in DOMAIN pycountry_countries =>
                        pycountry_countries[k] \in KeySet(normalized)
                 /\ k \notin DOMAIN pycountry_countries => k \in KeySet(normalized)
                 /\ Normalize(Normalize(k)) = Normalize(k)
           /\ convert_country_codes_to_names(normalized) = normalized
           /\ \A k \in KeySet(normalized) : Normalize(Normalize(k)) = Normalize(k)

C9_Witness ==
    /\ Generated
    /\ {"US", "United States", "ZZ"} \subseteq KeysOf(records, "source_country")

(***************************************************************************)
(* C10: convert_country_codes_to_names loses no messages: the counts of    *)
(* the name-keyed mapping add up to the counts of its input, also when     *)
(* two keys resolve to the same name.                                      *)
(***************************************************************************)
RECURSIVE ValueSum(_)
ValueSum(d) == IF d = <<>> THEN 0 ELSE d[1][2] + ValueSum(Tail(d))

\* C10: the normalized mapping's counts add up to the input's counts
C10_NoMessagesLost ==
    Generated =>
        ValueSum(convert_country_codes_to_names(CountryCounts(records))) =
        ValueSum(CountryCounts(records))

=============================================================================
